---- MODULE Spec2Model ----
(***************************************************************************)
(* A model of batch_loading/file_splitter.py: FileSplitter.split_file_by_  *)
(* lines (the line-respecting splitter) and split_multiple_files (the      *)
(* planner that runs it over a list of specs).                             *)
(*                                                                         *)
(* Files are sequences of raw lines as they lie on disk.  A raw line is    *)
(* [text, bytes, eol]: `text` identifies the line's content, `bytes` is    *)
(* the UTF-8 length of that content and `eol` is the terminator on disk    *)
(* ("LF", "CRLF", "CR", or "NONE" for an unterminated final line).  All    *)
(* contents are non-empty, valid UTF-8 and free of CR/LF, so decoding and  *)
(* re-encoding a content is the identity on its bytes and only the         *)
(* terminators are touched by Python's text layer.  The one exception is   *)
(* the content BadKind of SpecEnc, which is not valid UTF-8.               *)
(*                                                                         *)
(* A text line, as Python's text-mode reader yields it, is [text, bytes,   *)
(* nl]: nl says whether the string ends in "\n".                           *)
(***************************************************************************)
EXTENDS Integers, Sequences, FiniteSets, TLC

VARIABLES
    linesep,            \* os.linesep of the platform: "LF" or "CRLF"
    fs,                 \* the file system: existing path -> raw lines
    dirs,               \* existing directories: Root and label directories
    fs0,                \* history: fs when the operation under study was called
    dirs0,              \* history: dirs when the operation under study was called
    \* ---- one activation of FileSplitter.split_file_by_lines
    sp_pc,              \* "idle" | "called" | "loop" | "returned" | "raised"
    exc,                \* the exception raised, or "None"
    source_file,        \* argument
    batch_size_mb,      \* argument, a rational <<num, den>>
    table_name,         \* argument
    batch_size_bytes,   \* local (line 103)
    batch_files,        \* local, the returned list
    batch_number,       \* local
    current_batch_size, \* local
    batch_lines,        \* local
    header,             \* local, None or a text line
    line_number,        \* number of lines the for loop has consumed
    \* ---- one activation of split_multiple_files
    pl_pc,              \* "idle" | "called" | "loop" | "in_try" | "returned"
    file_configs,       \* argument: sequence of [source_file, batch_size_mb, table_name]
    idx,                \* position of the for loop in file_configs (1-based)
    results,            \* local dict, as an insertion-ordered sequence of [key, val]
    calls,              \* history: what each spec's split call ended with
    \* ---- one activation of SnowflakeBatchLoader.load_table_batches
    lt_pc,              \* "idle" | "called" | "loop" | "in_try" | "returned" | "raised"
    lt_table_name,      \* argument table_name
    lt_batch_files,     \* argument batch_files
    lt_batch_size_mb,   \* argument batch_size_mb
    lt_i,               \* i of the loop of line 265
    load_results,       \* local list of LoadResult
    file_size_mb,       \* local of load_batch_file (line 200), in bytes
    lt_summary,         \* the TableLoadSummary returned, or NoSummary
    lt_exc,             \* the exception that left load_table_batches, or "None"
    vanished,           \* number of batch files other processes have removed
    \* ---- one activation of run_batch_loading_pipeline
    pi_pc,              \* "idle" | "called" | "phase1" | "phase1_done" | "loading" | "returned"
    config,             \* config['file_configs']
    split_only,         \* argument
    load_only,          \* argument
    split_results,      \* results['split_results']
    load_summaries,     \* results['load_summaries']
    comparison,         \* results['comparison']: the table names compared
    fc_idx,             \* position of the loop of line 155 in config (1-based)
    connection,         \* loader.connection
    pi_exc,             \* the exception the handler of line 183 caught, or "None"
    loader_log,         \* history: the calls made on the loader, in order
    prior               \* history: label -> number of batch files the last
                        \* split before this run produced for it

vars == <<linesep, fs, dirs, fs0, dirs0, sp_pc, exc, source_file, batch_size_mb,
          table_name, batch_size_bytes, batch_files, batch_number,
          current_batch_size, batch_lines, header, line_number,
          pl_pc, file_configs, idx, results, calls,
          lt_pc, lt_table_name, lt_batch_files, lt_batch_size_mb, lt_i,
          load_results, file_size_mb, lt_summary, lt_exc, vanished,
          pi_pc, config, split_only, load_only, split_results,
          load_summaries, comparison, fc_idx, connection, pi_exc,
          loader_log, prior>>

splitVars == <<sp_pc, exc, source_file, batch_size_mb, table_name,
               batch_size_bytes, batch_files, batch_number,
               current_batch_size, batch_lines, header, line_number>>

planVars == <<pl_pc, file_configs, idx, results, calls>>

loadVars == <<lt_pc, lt_table_name, lt_batch_files, lt_batch_size_mb, lt_i,
              load_results, file_size_mb, lt_summary, lt_exc>>

pipeVars == <<pi_pc, config, split_only, load_only, split_results,
              load_summaries, comparison, fc_idx, connection, pi_exc,
              loader_log, prior>>

\* What the splitter and the planner never touch.
outerVars == <<loadVars, pipeVars, vanished>>

(***************************************************************************)
(* Bounds of the model.                                                    *)
(***************************************************************************)
MaxDataLines == 5
MaxSpecs == 3

(***************************************************************************)
(* Values.                                                                 *)
(***************************************************************************)
None == [text |-> -1, bytes |-> 0, nl |-> FALSE]

Root == "ROOT"

Labels == {"t1", "t2", "t3"}

\* 1024 * 1024 of line 103.
BytesPerMB == 1024 * 1024

SrcPath(n) == [dir |-> "data", name |-> n, seq |-> 0]

\* Mutant of BatchPath: the batch files of every label go to one directory
\* under one name.
BatchPathShared(label, n) == [dir |-> "t1", name |-> "t1", seq |-> n]

\* table_dir / f"{table_name}_batch_{batch_number}.csv"
BatchPath(label, n) == [dir |-> label, name |-> label, seq |-> n]

IsBatchPath(p) == p.seq > 0

EolLen(e) == CASE e = "LF" -> 1 [] e = "CR" -> 1 [] e = "CRLF" -> 2 [] OTHER -> 0

\* Size of a raw line, and of a file, in bytes on disk.
RawLineSize(r) == r.bytes + EolLen(r.eol)

RECURSIVE FileSize(_)
FileSize(raw) ==
    IF raw = <<>> THEN 0 ELSE RawLineSize(Head(raw)) + FileSize(Tail(raw))

(***************************************************************************)
(* Python's text layer (open(..., encoding='utf-8'), newline=None).        *)
(***************************************************************************)
\* Reading with universal newlines: "\r\n" and "\r" are translated to "\n".
DecodeLine(r) == [text |-> r.text, bytes |-> r.bytes, nl |-> r.eol # "NONE"]

\* The lines `for line in source` yields for a file with raw content `raw`.
ReadText(raw) == [i \in 1..Len(raw) |-> DecodeLine(raw[i])]

\* Writing: every "\n" written is translated to os.linesep.
EncodeLine(t) ==
    [text |-> t.text, bytes |-> t.bytes, eol |-> IF t.nl THEN linesep ELSE "NONE"]

WriteText(lines) == [i \in 1..Len(lines) |-> EncodeLine(lines[i])]

\* len(line.encode('utf-8')) of line 122.
LineSize(t) == t.bytes + (IF t.nl THEN 1 ELSE 0)

\* batch_size_mb * 1024 * 1024 of line 103, rounded down to an integer: the
\* value is only ever compared (>) with integers, for which the floor decides.
BatchSizeBytes(mb) == (mb[1] * BytesPerMB) \div mb[2]

\* "if header:" of lines 131 and 152: not None and not the empty string.
Truthy(h) == h # None /\ LineSize(h) > 0

\* The content lines 130-133 / 151-154 write into a batch file.
BatchContent(h, lines) ==
    WriteText((IF Truthy(h) THEN <<h>> ELSE <<>>) \o lines)

\* open(batch_path, 'w') ... write: creates or truncates the file.
WriteFile(f, p, raw) ==
    [q \in (DOMAIN f) \cup {p} |-> IF q = p THEN raw ELSE f[q]]

(***************************************************************************)
(* The inputs the model draws from.                                        *)
(***************************************************************************)
\* Contents of header lines: a short one ("a,b,c") and one longer than the
\* small data lines.
HeaderKinds == {[text |-> 0, bytes |-> 5], [text |-> 9, bytes |-> 79]}

\* Contents of data lines.  With their "\n" the small ones encode to 40, 60
\* and 120 bytes, the large ones to half a MiB and one and a half MiB.
SmallKinds == {[text |-> 1, bytes |-> 39], [text |-> 2, bytes |-> 59],
               [text |-> 3, bytes |-> 119]}

LargeKinds == {[text |-> 4, bytes |-> 524287], [text |-> 5, bytes |-> 1572863]}

DataSeqs(kinds) == UNION {[1..n -> kinds] : n \in 0..MaxDataLines}

\* A file's line-terminator convention; "LF-" is LF with the final line
\* left unterminated.
Conventions == {"LF", "CRLF", "CR", "LF-"}

MkLine(k, e) == [text |-> k.text, bytes |-> k.bytes, eol |-> e]

MkFile(contents, conv) ==
    [i \in 1..Len(contents) |->
        MkLine(contents[i],
               IF conv = "LF-"
               THEN (IF i = Len(contents) THEN "NONE" ELSE "LF")
               ELSE conv)]

SourceFiles ==
    {<<>>} \cup
    {MkFile(<<h>> \o ds, conv) :
        h \in HeaderKinds,
        ds \in DataSeqs(SmallKinds) \cup DataSeqs(LargeKinds),
        conv \in Conventions}

\* batch_size_mb values <<num, den>>: -1, 0 and 1 MB, and 100 bytes
\* (100 / 2^20 MB, which a float holds exactly).
BatchSizes == {<<0 - 1, 1>>, <<0, 1>>, <<1, 1>>, <<100, BytesPerMB>>}

Platforms == {"LF", "CRLF"}

(***************************************************************************)
(* FileSplitter.split_file_by_lines, one step per statement group.         *)
(***************************************************************************)
PlanIdle ==
    /\ pl_pc = "idle"
    /\ file_configs = <<>>
    /\ idx = 1
    /\ results = <<>>
    /\ calls = <<>>

\* No TableLoadSummary.
NoSummary == [table_name |-> "None", batch_size_mb |-> <<0, 1>>,
              total_batches |-> 0, total_rows_loaded |-> 0,
              total_size |-> 0, load_results |-> <<>>]

\* No load_table_batches is active.
LoadIdle ==
    /\ lt_pc = "idle"
    /\ lt_table_name = "None"
    /\ lt_batch_files = <<>>
    /\ lt_batch_size_mb = <<0, 1>>
    /\ lt_i = 1
    /\ load_results = <<>>
    /\ file_size_mb = 0
    /\ lt_summary = NoSummary
    /\ lt_exc = "None"

\* Neither the loader nor the pipeline is in use.
OuterIdle ==
    /\ LoadIdle
    /\ vanished = 0
    /\ pi_pc = "idle"
    /\ config = <<>>
    /\ split_only = FALSE
    /\ load_only = FALSE
    /\ split_results = <<>>
    /\ load_summaries = <<>>
    /\ comparison = <<>>
    /\ fc_idx = 1
    /\ connection = "None"
    /\ pi_exc = "None"
    /\ loader_log = <<>>
    /\ prior = [l \in {} |-> 0]

\* Mutant of RaiseNotFound: the table directory is made (line 108) before
\* the existence test of line 100.
RaiseNotFoundAfterMkdir ==
    /\ sp_pc = "called"
    /\ source_file \notin DOMAIN fs
    /\ dirs' = dirs \cup {table_name}
    /\ sp_pc' = "raised"
    /\ exc' = "FileNotFoundError"
    /\ UNCHANGED <<linesep, fs, fs0, dirs0, source_file, batch_size_mb,
                   table_name, batch_size_bytes, batch_files, batch_number,
                   current_batch_size, batch_lines, header, line_number>>
    /\ UNCHANGED planVars
    /\ UNCHANGED outerVars

\* Lines 99-101: the source does not exist.
RaiseNotFound ==
    /\ sp_pc = "called"
    /\ source_file \notin DOMAIN fs
    /\ sp_pc' = "raised"
    /\ exc' = "FileNotFoundError"
    /\ UNCHANGED <<linesep, fs, dirs, fs0, dirs0, source_file, batch_size_mb,
                   table_name, batch_size_bytes, batch_files, batch_number,
                   current_batch_size, batch_lines, header, line_number>>
    /\ UNCHANGED planVars
    /\ UNCHANGED outerVars

\* Mutant of OpenSource: the table directory is emptied before it is used.
OpenSourceCleared ==
    /\ sp_pc = "called"
    /\ source_file \in DOMAIN fs
    /\ batch_size_bytes' = BatchSizeBytes(batch_size_mb)
    /\ batch_files' = <<>>
    /\ fs' = [p \in {q \in DOMAIN fs : q.dir # table_name \/ q = source_file}
                |-> fs[p]]
    /\ dirs' = dirs \cup {table_name}
    /\ batch_number' = 1
    /\ current_batch_size' = 0
    /\ batch_lines' = <<>>
    /\ header' = None
    /\ line_number' = 0
    /\ sp_pc' = "loop"
    /\ UNCHANGED <<linesep, fs0, dirs0, exc, source_file, batch_size_mb,
                   table_name>>
    /\ UNCHANGED planVars
    /\ UNCHANGED outerVars

\* Mutant of OpenSource: numbering continues after the batch files the
\* table directory already holds.
OpenSourceContinueNumbering ==
    /\ sp_pc = "called"
    /\ source_file \in DOMAIN fs
    /\ batch_size_bytes' = BatchSizeBytes(batch_size_mb)
    /\ batch_files' = <<>>
    /\ dirs' = dirs \cup {table_name}
    /\ batch_number' =
          1 + Cardinality({p \in DOMAIN fs : p.dir = table_name /\ p.seq > 0})
    /\ current_batch_size' = 0
    /\ batch_lines' = <<>>
    /\ header' = None
    /\ line_number' = 0
    /\ sp_pc' = "loop"
    /\ UNCHANGED <<linesep, fs, fs0, dirs0, exc, source_file, batch_size_mb,
                   table_name>>
    /\ UNCHANGED planVars
    /\ UNCHANGED outerVars

\* Lines 99-114: the source exists; compute the threshold, make the table
\* directory, open the source and initialise the loop's locals.
OpenSource ==
    /\ sp_pc = "called"
    /\ source_file \in DOMAIN fs
    /\ batch_size_bytes' = BatchSizeBytes(batch_size_mb)
    /\ batch_files' = <<>>
    /\ dirs' = dirs \cup {table_name}
    /\ batch_number' = 1
    /\ current_batch_size' = 0
    /\ batch_lines' = <<>>
    /\ header' = None
    /\ line_number' = 0
    /\ sp_pc' = "loop"
    /\ UNCHANGED <<linesep, fs, fs0, dirs0, exc, source_file, batch_size_mb,
                   table_name>>
    /\ UNCHANGED planVars
    /\ UNCHANGED outerVars

\* What the reader opened at line 110 sees.  Nothing but this call writes
\* while it runs, and it writes only batch paths.  A source that is not a
\* batch path of this call is read as it lies on disk.  A source that is one
\* (the cases of InitDir) is shorter than one read chunk of the text layer,
\* so the first read buffered all of it before any batch file was opened for
\* writing.  Either way the reader sees the file as it was at call time.
SourceStream == fs0[source_file]

\* The line the for loop of line 116 yields next.
NextLine == ReadText(SourceStream)[line_number + 1]

HasNextLine == line_number < Len(SourceStream)

\* A content that holds a byte sequence that is not UTF-8.
BadKind == [text |-> 7, bytes |-> 39]

Undecodable(r) == r.text = BadKind.text

\* The reader yields the next line: there is one and it decodes.
YieldsLine == HasNextLine /\ ~Undecodable(SourceStream[line_number + 1])

\* Mutant of MustFlush: the size of the incoming line is left out of the test.
MustFlushIgnoringLine(line) ==
    /\ current_batch_size > batch_size_bytes
    /\ batch_lines # <<>>

\* Mutant of MustFlush: >= in place of >.
MustFlushAtLimit(line) ==
    /\ current_batch_size + LineSize(line) >= batch_size_bytes
    /\ batch_lines # <<>>

\* Line 125: adding the line would exceed the batch size, and the batch
\* being assembled is not empty.
MustFlush(line) ==
    /\ current_batch_size + LineSize(line) > batch_size_bytes
    /\ batch_lines # <<>>

\* Lines 116-120: line 0 is saved as the header.
SaveHeader ==
    /\ sp_pc = "loop"
    /\ YieldsLine
    /\ line_number = 0
    /\ header' = NextLine
    /\ line_number' = line_number + 1
    /\ UNCHANGED <<linesep, fs, dirs, fs0, dirs0, sp_pc, exc, source_file,
                   batch_size_mb, table_name, batch_size_bytes, batch_files,
                   batch_number, current_batch_size, batch_lines>>
    /\ UNCHANGED planVars
    /\ UNCHANGED outerVars

\* Mutant of FlushAndAppend: the batch number is not advanced after a flush
\* (line 136 left out).
FlushNoIncrement ==
    /\ sp_pc = "loop"
    /\ YieldsLine
    /\ line_number # 0
    /\ MustFlush(NextLine)
    /\ fs' = WriteFile(fs, BatchPath(table_name, batch_number),
                       BatchContent(header, batch_lines))
    /\ batch_files' = Append(batch_files, BatchPath(table_name, batch_number))
    /\ batch_lines' = <<NextLine>>
    /\ current_batch_size' = LineSize(NextLine)
    /\ line_number' = line_number + 1
    /\ UNCHANGED <<linesep, dirs, fs0, dirs0, sp_pc, exc, source_file,
                   batch_size_mb, table_name, batch_size_bytes, header,
                   batch_number>>
    /\ UNCHANGED planVars
    /\ UNCHANGED outerVars

\* Mutant of FlushAndAppend: the line that triggered the flush is not carried
\* into the new batch.
FlushAndDrop ==
    /\ sp_pc = "loop"
    /\ YieldsLine
    /\ line_number # 0
    /\ MustFlush(NextLine)
    /\ fs' = WriteFile(fs, BatchPath(table_name, batch_number),
                       BatchContent(header, batch_lines))
    /\ batch_files' = Append(batch_files, BatchPath(table_name, batch_number))
    /\ batch_number' = batch_number + 1
    /\ batch_lines' = <<>>
    /\ current_batch_size' = 0
    /\ line_number' = line_number + 1
    /\ UNCHANGED <<linesep, dirs, fs0, dirs0, sp_pc, exc, source_file,
                   batch_size_mb, table_name, batch_size_bytes, header>>
    /\ UNCHANGED planVars
    /\ UNCHANGED outerVars

\* Lines 122-144 when the test of line 125 holds: write the current batch,
\* start a new one, then add the line to it.
FlushAndAppend ==
    /\ sp_pc = "loop"
    /\ YieldsLine
    /\ line_number # 0
    /\ MustFlush(NextLine)
    /\ fs' = WriteFile(fs, BatchPath(table_name, batch_number),
                       BatchContent(header, batch_lines))
    /\ batch_files' = Append(batch_files, BatchPath(table_name, batch_number))
    /\ batch_number' = batch_number + 1
    /\ batch_lines' = <<NextLine>>
    /\ current_batch_size' = LineSize(NextLine)
    /\ line_number' = line_number + 1
    /\ UNCHANGED <<linesep, dirs, fs0, dirs0, sp_pc, exc, source_file,
                   batch_size_mb, table_name, batch_size_bytes, header>>
    /\ UNCHANGED planVars
    /\ UNCHANGED outerVars

\* Lines 122-144 when the test of line 125 fails: add the line to the batch.
AppendLine ==
    /\ sp_pc = "loop"
    /\ YieldsLine
    /\ line_number # 0
    /\ ~MustFlush(NextLine)
    /\ batch_lines' = Append(batch_lines, NextLine)
    /\ current_batch_size' = current_batch_size + LineSize(NextLine)
    /\ line_number' = line_number + 1
    /\ UNCHANGED <<linesep, fs, dirs, fs0, dirs0, sp_pc, exc, source_file,
                   batch_size_mb, table_name, batch_size_bytes, batch_files,
                   batch_number, header>>
    /\ UNCHANGED planVars
    /\ UNCHANGED outerVars

\* Mutant of FinishSplit: the last batch is written without the test of
\* line 147.
FinishSplitAlwaysWrite ==
    /\ sp_pc = "loop"
    /\ ~HasNextLine
    /\ fs' = WriteFile(fs, BatchPath(table_name, batch_number),
                       BatchContent(header, batch_lines))
    /\ batch_files' = Append(batch_files, BatchPath(table_name, batch_number))
    /\ sp_pc' = "returned"
    /\ UNCHANGED <<linesep, dirs, fs0, dirs0, exc, source_file, batch_size_mb,
                   table_name, batch_size_bytes, batch_number,
                   current_batch_size, batch_lines, header, line_number>>
    /\ UNCHANGED planVars
    /\ UNCHANGED outerVars

\* Lines 146-158: the source is exhausted; write the remaining lines, if
\* any, as the last batch and return batch_files.
FinishSplit ==
    /\ sp_pc = "loop"
    /\ ~HasNextLine
    /\ IF batch_lines # <<>>
       THEN /\ fs' = WriteFile(fs, BatchPath(table_name, batch_number),
                               BatchContent(header, batch_lines))
            /\ batch_files' = Append(batch_files,
                                     BatchPath(table_name, batch_number))
       ELSE UNCHANGED <<fs, batch_files>>
    /\ sp_pc' = "returned"
    /\ UNCHANGED <<linesep, dirs, fs0, dirs0, exc, source_file, batch_size_mb,
                   table_name, batch_size_bytes, batch_number,
                   current_batch_size, batch_lines, header, line_number>>
    /\ UNCHANGED planVars
    /\ UNCHANGED outerVars

SplitStep ==
    \/ RaiseNotFound
    \/ OpenSource
    \/ SaveHeader
    \/ FlushAndAppend
    \/ AppendLine
    \/ FinishSplit

(***************************************************************************)
(* SpecSplit: one call of split_file_by_lines on a FileSplitter whose      *)
(* target directory exists (line 27), for every source file, batch size    *)
(* and platform of the bounded input sets.                                 *)
(***************************************************************************)
InitSplit ==
    /\ linesep \in Platforms
    /\ \/ /\ \E content \in SourceFiles : fs = (SrcPath("a") :> content)
          /\ source_file = SrcPath("a")
       \/ /\ fs = (SrcPath("a") :> MkFile(<<[text |-> 0, bytes |-> 5]>>, "LF"))
          /\ source_file = SrcPath("missing")
    /\ dirs = {Root}
    /\ fs0 = fs
    /\ dirs0 = dirs
    /\ sp_pc = "called"
    /\ exc = "None"
    /\ batch_size_mb \in BatchSizes
    /\ table_name = "t1"
    /\ batch_size_bytes = 0
    /\ batch_files = <<>>
    /\ batch_number = 1
    /\ current_batch_size = 0
    /\ batch_lines = <<>>
    /\ header = None
    /\ line_number = 0
    /\ PlanIdle
    /\ OuterIdle

NextSplit == SplitStep

SpecSplit == InitSplit /\ [][NextSplit]_vars

(***************************************************************************)
(* Vocabulary of the properties of split_file_by_lines.                    *)
(***************************************************************************)
\* The source as it was when split_file_by_lines was called.
SourceRaw == IF source_file \in DOMAIN fs0 THEN fs0[source_file] ELSE <<>>

SourceText == ReadText(SourceRaw)

\* The data lines of a sequence of lines: all lines after the first.
DataOf(lines) == IF lines = <<>> THEN <<>> ELSE Tail(lines)

\* Number of data lines of the source.
NData == Len(DataOf(SourceRaw))

\* The k-th returned batch file, raw and as a text reader yields it.
BatchRaw(k) == fs[batch_files[k]]

BatchText(k) == ReadText(BatchRaw(k))

\* Data lines of the first k returned batch files, concatenated in order.
RECURSIVE ConcatData(_)
ConcatData(k) ==
    IF k = 0 THEN <<>> ELSE ConcatData(k - 1) \o DataOf(BatchText(k))

\* Number of data lines in the first k returned batch files.
RECURSIVE DataCount(_)
DataCount(k) ==
    IF k = 0 THEN 0 ELSE DataCount(k - 1) + Len(DataOf(BatchRaw(k)))

RECURSIVE MaxRawLine(_)
MaxRawLine(raw) ==
    IF raw = <<>> THEN 0
    ELSE LET m == MaxRawLine(Tail(raw))
             h == RawLineSize(Head(raw))
         IN IF h > m THEN h ELSE m

PositiveBatchSize == batch_size_mb[1] > 0

Returned == sp_pc = "returned"

\* C1: Round trip.  When split_file_by_lines returns for a positive batch
\* size, the data lines of the returned batch files (each file's lines after
\* its first), concatenated in returned order, are the source's data lines in
\* their original order; so the per-batch data line counts sum to N.  Lines
\* are compared as a line-oriented text reader yields them.
C1_RoundTrip ==
    (Returned /\ PositiveBatchSize) =>
        /\ \A k \in DOMAIN batch_files : batch_files[k] \in DOMAIN fs
        /\ ConcatData(Len(batch_files)) = DataOf(SourceText)
        /\ DataCount(Len(batch_files)) = NData

C1_Witness ==
    /\ Returned
    /\ PositiveBatchSize
    /\ NData = 5
    /\ Len(batch_files) = 3
    /\ SourceRaw[2].eol = "CRLF"
    /\ SourceRaw[2].text # SourceRaw[3].text

\* C2: Header fidelity.  The first line of every returned batch file equals
\* the first line of the source byte for byte, terminator included.
C2_HeaderBytes ==
    (Returned /\ PositiveBatchSize) =>
        \A k \in DOMAIN batch_files : BatchRaw(k)[1] = SourceRaw[1]

\* A batch file whose only data line is by itself larger than the target,
\* measured on disk or as the splitter measures it.
OnlyOversizedLine(raw) ==
    /\ Len(raw) = 2
    /\ \/ RawLineSize(raw[2]) > batch_size_bytes
       \/ LineSize(DecodeLine(raw[2])) > batch_size_bytes

\* C3: Soft size bound.  Every returned batch file, except one whose only
\* data line is by itself larger than the target, has a size on disk (header
\* included) of at most the target plus the size of its largest line.
C3_SoftBound ==
    Returned =>
        \A k \in DOMAIN batch_files :
            ~OnlyOversizedLine(BatchRaw(k)) =>
                FileSize(BatchRaw(k)) <= batch_size_bytes + MaxRawLine(BatchRaw(k))

\* A source line whose encoded size alone exceeds the target batch size.
Oversized(j) == LineSize(SourceText[j]) > batch_size_bytes

\* C4: Oversized line.  The split of an existing source does not fail, and
\* every data line whose encoded size alone exceeds the target is the only
\* data line of the batch file at its position in the source, which holds the
\* header followed by that line; a source whose single data line is
\* oversized gives exactly one batch file.
C4_OversizedLine ==
    /\ source_file \in DOMAIN fs0 => sp_pc # "raised"
    /\ Returned =>
        \A j \in 2..Len(SourceText) :
            Oversized(j) =>
                \E k \in DOMAIN batch_files :
                    /\ DataCount(k - 1) = j - 2
                    /\ BatchText(k) = <<SourceText[1], SourceText[j]>>
    /\ (Returned /\ NData = 1 /\ Oversized(2)) => Len(batch_files) = 1

C4_Witness ==
    /\ Returned
    /\ PositiveBatchSize
    /\ NData = 3
    /\ ~Oversized(2)
    /\ Oversized(3)
    /\ ~Oversized(4)
    /\ Len(batch_files) = 3

\* C5: Zero-data case.  A split of a source that holds only a header line,
\* or no line at all, writes no file at any point and returns the empty list.
C5_ZeroData ==
    (source_file \in DOMAIN fs0 /\ NData = 0) =>
        /\ fs = fs0
        /\ sp_pc # "raised"
        /\ Returned => batch_files = <<>>

C5_Witness ==
    /\ Returned
    /\ Len(SourceRaw) = 1
    /\ batch_files = <<>>

\* All data lines of the source have the encoded size s.
EqualSizes(s) == \A j \in 2..Len(SourceText) : LineSize(SourceText[j]) = s

\* C6: Equal-size lines.  For N >= 1 data lines of one encoded size s and a
\* target T >= s, the split gives ceil(N / floor(T/s)) batch files, each with
\* floor(T/s) data lines and the last with the remainder; 5 data lines of 40
\* bytes and T = 100 give 3 batch files with 2, 2 and 1 data lines.
C6_EqualSizes ==
    /\ (Returned /\ NData >= 1 /\ EqualSizes(LineSize(SourceText[2]))
            /\ LineSize(SourceText[2]) <= batch_size_bytes) =>
        LET s == LineSize(SourceText[2])
            q == batch_size_bytes \div s
            K == Len(batch_files)
        IN /\ K = (NData + q - 1) \div q
           /\ \A k \in 1..(K - 1) : Len(DataOf(BatchRaw(k))) = q
           /\ Len(DataOf(BatchRaw(K))) = NData - q * (K - 1)
    /\ (Returned /\ NData = 5 /\ EqualSizes(40) /\ batch_size_bytes = 100) =>
        /\ Len(batch_files) = 3
        /\ Len(DataOf(BatchRaw(1))) = 2
        /\ Len(DataOf(BatchRaw(2))) = 2
        /\ Len(DataOf(BatchRaw(3))) = 1

C6_Witness ==
    /\ Returned
    /\ NData = 5
    /\ EqualSizes(40)
    /\ batch_size_bytes = 100
    /\ Len(batch_files) = 3

\* C9: Invalid batch size.  A call with a zero or negative batch size on an
\* existing source is rejected with an invalid-argument error: it never gets
\* past its argument checks and writes no batch file.
C9_Rejected ==
    (~PositiveBatchSize /\ source_file \in DOMAIN fs0 /\ sp_pc # "called") =>
        /\ sp_pc = "raised"
        /\ exc = "ValueError"
        /\ fs = fs0

\* C10: Missing source.  A call whose source path does not exist ends by
\* raising FileNotFoundError, with the files and the directories of the
\* output tree as they were before the call.
C10_MissingSource ==
    (source_file \notin DOMAIN fs0 /\ sp_pc # "called") =>
        /\ sp_pc = "raised"
        /\ exc = "FileNotFoundError"
        /\ fs = fs0
        /\ dirs = dirs0

C10_Witness ==
    /\ source_file \notin DOMAIN fs0
    /\ sp_pc = "raised"
    /\ table_name \notin dirs0

(***************************************************************************)
(* split_multiple_files.  `results` is a Python dict: an insertion-ordered *)
(* sequence of [key, val] in which assigning to a key that is present      *)
(* replaces its value in place.                                            *)
(***************************************************************************)
HasKey(d, k) == \E i \in DOMAIN d : d[i].key = k

DictGet(d, k) == d[CHOOSE i \in DOMAIN d : d[i].key = k].val

\* Mutant of DictSet: a key that is present keeps its first value.
DictSetDefault(d, k, v) ==
    IF HasKey(d, k) THEN d ELSE Append(d, [key |-> k, val |-> v])

\* d[k] = v
DictSet(d, k, v) ==
    IF HasKey(d, k)
    THEN [i \in DOMAIN d |-> IF d[i].key = k THEN [key |-> k, val |-> v] ELSE d[i]]
    ELSE Append(d, [key |-> k, val |-> v])

\* Lines 214-215: construct the FileSplitter (which makes the target
\* directory, line 27) and the empty results dict.
PlanStart ==
    /\ pl_pc = "called"
    /\ dirs' = dirs \cup {Root}
    /\ results' = <<>>
    /\ idx' = 1
    /\ pl_pc' = "loop"
    /\ UNCHANGED <<linesep, fs, fs0, dirs0, file_configs, calls>>
    /\ UNCHANGED splitVars
    /\ UNCHANGED outerVars

\* Lines 217-225: the next spec is unpacked and split_file_by_lines is
\* called with it, inside the try.
PlanInvoke ==
    /\ pl_pc = "loop"
    /\ idx <= Len(file_configs)
    /\ source_file' = file_configs[idx].source_file
    /\ batch_size_mb' = file_configs[idx].batch_size_mb
    /\ table_name' = file_configs[idx].table_name
    /\ sp_pc' = "called"
    /\ exc' = "None"
    /\ fs0' = fs
    /\ dirs0' = dirs
    /\ pl_pc' = "in_try"
    /\ UNCHANGED <<linesep, fs, dirs, batch_size_bytes, batch_files,
                   batch_number, current_batch_size, batch_lines, header,
                   line_number, file_configs, idx, results, calls>>
    /\ UNCHANGED outerVars

\* create_batch_summary (lines 182-197) stats every batch file and raises
\* if one does not exist.
SummaryRaises(files) == \E k \in DOMAIN files : files[k] \notin DOMAIN fs

\* Lines 226-230 (and 231-233 should the summary raise): the call returned;
\* its list is stored under the label and the summary is printed.
PlanRecord ==
    /\ pl_pc = "in_try"
    /\ sp_pc = "returned"
    /\ results' = IF SummaryRaises(batch_files)
                  THEN DictSet(DictSet(results, table_name, batch_files),
                               table_name, <<>>)
                  ELSE DictSet(results, table_name, batch_files)
    /\ calls' = Append(calls, [ok |-> TRUE, files |-> batch_files])
    /\ idx' = idx + 1
    /\ sp_pc' = "idle"
    /\ pl_pc' = "loop"
    /\ UNCHANGED <<linesep, fs, dirs, fs0, dirs0, exc, source_file,
                   batch_size_mb, table_name, batch_size_bytes, batch_files,
                   batch_number, current_batch_size, batch_lines, header,
                   line_number, file_configs>>
    /\ UNCHANGED outerVars

\* Mutant of PlanExcept: the handler records nothing for the label.
PlanExceptNoRecord ==
    /\ pl_pc = "in_try"
    /\ sp_pc = "raised"
    /\ calls' = Append(calls, [ok |-> FALSE, files |-> <<>>])
    /\ idx' = idx + 1
    /\ sp_pc' = "idle"
    /\ pl_pc' = "loop"
    /\ UNCHANGED <<linesep, fs, dirs, fs0, dirs0, exc, source_file,
                   batch_size_mb, table_name, batch_size_bytes, batch_files,
                   batch_number, current_batch_size, batch_lines, header,
                   line_number, file_configs, results>>
    /\ UNCHANGED outerVars

\* Lines 231-233: the call raised; the handler stores the empty list under
\* the label and the loop goes on.
PlanExcept ==
    /\ pl_pc = "in_try"
    /\ sp_pc = "raised"
    /\ results' = DictSet(results, table_name, <<>>)
    /\ calls' = Append(calls, [ok |-> FALSE, files |-> <<>>])
    /\ idx' = idx + 1
    /\ sp_pc' = "idle"
    /\ pl_pc' = "loop"
    /\ UNCHANGED <<linesep, fs, dirs, fs0, dirs0, exc, source_file,
                   batch_size_mb, table_name, batch_size_bytes, batch_files,
                   batch_number, current_batch_size, batch_lines, header,
                   line_number, file_configs>>
    /\ UNCHANGED outerVars

\* Line 235: the loop is over; results is returned.
PlanReturn ==
    /\ pl_pc = "loop"
    /\ idx > Len(file_configs)
    /\ pl_pc' = "returned"
    /\ UNCHANGED <<linesep, fs, dirs, fs0, dirs0, file_configs, idx, results,
                   calls>>
    /\ UNCHANGED splitVars
    /\ UNCHANGED outerVars

(***************************************************************************)
(* SpecPlan: one call of split_multiple_files, for every sequence of at    *)
(* most MaxSpecs specs over three source paths (a file with data lines, a  *)
(* header-only file, a path that does not exist) and three labels.         *)
(***************************************************************************)
PlanFs ==
    (SrcPath("a") :> MkFile(<<[text |-> 0, bytes |-> 5], [text |-> 1, bytes |-> 39],
                              [text |-> 2, bytes |-> 59], [text |-> 1, bytes |-> 39]>>,
                            "LF"))
    @@ (SrcPath("b") :> MkFile(<<[text |-> 0, bytes |-> 5]>>, "LF"))

PlanSpecs ==
    {[source_file |-> SrcPath(n), batch_size_mb |-> <<100, BytesPerMB>>,
      table_name |-> l] : n \in {"a", "b", "missing"}, l \in Labels}

InitPlan ==
    /\ linesep \in Platforms
    /\ fs = PlanFs
    /\ dirs \in {{}, {Root}}
    /\ fs0 = fs
    /\ dirs0 = dirs
    /\ sp_pc = "idle"
    /\ exc = "None"
    /\ source_file = SrcPath("a")
    /\ batch_size_mb = <<1, 1>>
    /\ table_name = "t1"
    /\ batch_size_bytes = 0
    /\ batch_files = <<>>
    /\ batch_number = 1
    /\ current_batch_size = 0
    /\ batch_lines = <<>>
    /\ header = None
    /\ line_number = 0
    /\ pl_pc = "called"
    /\ file_configs \in UNION {[1..n -> PlanSpecs] : n \in 0..MaxSpecs}
    /\ idx = 1
    /\ results = <<>>
    /\ calls = <<>>
    /\ OuterIdle

NextPlan ==
    \/ PlanStart
    \/ PlanInvoke
    \/ SplitStep
    \/ PlanRecord
    \/ PlanExcept
    \/ PlanReturn

SpecPlan == InitPlan /\ [][NextPlan]_vars

(***************************************************************************)
(* Vocabulary of the properties of split_multiple_files.                   *)
(***************************************************************************)
LabelOf(i) == file_configs[i].table_name

PlanReturned == pl_pc = "returned"

\* No spec after the i-th has the i-th spec's label.
LastWithLabel(i) ==
    \A j \in (i + 1)..Len(file_configs) : LabelOf(j) # LabelOf(i)

DistinctLabels ==
    \A i, j \in DOMAIN file_configs : i # j => LabelOf(i) # LabelOf(j)

\* Position of the first spec that has label l.
FirstSpecWith(l) ==
    CHOOSE i \in DOMAIN file_configs :
        /\ LabelOf(i) = l
        /\ \A j \in 1..(i - 1) : LabelOf(j) # l

\* The keys of results are labels of specs, without repeats, in the order
\* in which the spec sequence first names them.
KeysInSpecOrder ==
    /\ \A p \in DOMAIN results : \E i \in DOMAIN file_configs : LabelOf(i) = results[p].key
    /\ \A p, q \in DOMAIN results :
        p < q => FirstSpecWith(results[p].key) < FirstSpecWith(results[q].key)

\* C7: Planner resilience.  split_multiple_files never raises; right after a
\* spec's split has failed the results hold the empty list under that spec's
\* label, and this is what is returned for it unless a later spec has the
\* same label; every spec, also after a failure, has been processed when the
\* mapping is returned.  With 3 specs of distinct labels, the 2nd source
\* missing and the 1st and 3rd holding data lines, the returned mapping holds
\* non-empty lists for specs 1 and 3 and the empty list for spec 2.
C7_Resilience ==
    /\ pl_pc # "raised"
    /\ (pl_pc \in {"loop", "returned"} /\ idx > 1 /\ ~calls[idx - 1].ok) =>
        /\ HasKey(results, LabelOf(idx - 1))
        /\ DictGet(results, LabelOf(idx - 1)) = <<>>
    /\ PlanReturned =>
        /\ Len(calls) = Len(file_configs)
        /\ \A i \in DOMAIN file_configs :
            (~calls[i].ok /\ LastWithLabel(i)) =>
                /\ HasKey(results, LabelOf(i))
                /\ DictGet(results, LabelOf(i)) = <<>>
    /\ (PlanReturned /\ Len(file_configs) = 3 /\ DistinctLabels
            /\ file_configs[1].source_file = SrcPath("a")
            /\ file_configs[2].source_file \notin DOMAIN PlanFs
            /\ file_configs[3].source_file = SrcPath("a")) =>
        /\ Len(results) = 3
        /\ DictGet(results, LabelOf(1)) # <<>>
        /\ DictGet(results, LabelOf(2)) = <<>>
        /\ DictGet(results, LabelOf(3)) # <<>>

C7_Witness ==
    /\ PlanReturned
    /\ Len(file_configs) = 3
    /\ DistinctLabels
    /\ file_configs[1].source_file = SrcPath("a")
    /\ file_configs[2].source_file \notin DOMAIN PlanFs
    /\ file_configs[3].source_file = SrcPath("a")
    /\ ~calls[2].ok
    /\ calls[3].ok

\* C8 as stated: in the returned mapping the label of every spec whose split
\* succeeded maps to exactly the list that split produced for that spec, and
\* the keys appear in spec order.
C8_EverySuccess ==
    PlanReturned =>
        /\ \A i \in DOMAIN file_configs :
            calls[i].ok =>
                /\ HasKey(results, LabelOf(i))
                /\ DictGet(results, LabelOf(i)) = calls[i].files
        /\ KeysInSpecOrder

\* C8 as amended: in the returned mapping the label of every spec whose
\* split succeeded, and whose label no later spec has, maps to exactly the
\* list that split produced for that spec; the keys are the labels of the
\* specs in the order in which the spec sequence first names them.
C8_LastSuccess ==
    PlanReturned =>
        /\ \A i \in DOMAIN file_configs :
            (calls[i].ok /\ LastWithLabel(i)) =>
                /\ HasKey(results, LabelOf(i))
                /\ DictGet(results, LabelOf(i)) = calls[i].files
        /\ \A i \in DOMAIN file_configs : HasKey(results, LabelOf(i))
        /\ KeysInSpecOrder

C8_Witness ==
    /\ PlanReturned
    /\ Len(file_configs) = 3
    /\ LabelOf(1) = LabelOf(3)
    /\ LabelOf(2) # LabelOf(1)
    /\ calls[1].ok /\ calls[1].files = <<>>
    /\ calls[2].ok /\ calls[2].files # <<>>
    /\ calls[3].ok /\ calls[3].files # <<>>
    /\ DictGet(results, LabelOf(3)) = calls[3].files

(***************************************************************************)
(* Further properties of one call of split_file_by_lines.                  *)
(***************************************************************************)
\* The paths this call has created or rewritten so far.
WrittenPaths == {p \in DOMAIN fs : p \notin DOMAIN fs0 \/ fs[p] # fs0[p]}

\* C11: Sequence numbering.  When split_file_by_lines returns K batch files
\* for label L, the k-th element of the returned list is the path
\* <root>/L/L_batch_k.csv: the sequence numbers start at 1 and are contiguous,
\* without gaps or repeats, and they are the names of the files written (the
\* files the call created are exactly the returned ones).
C11_SequenceNumbering ==
    Returned =>
        /\ \A k \in DOMAIN batch_files :
              /\ batch_files[k] = [dir |-> table_name, name |-> table_name, seq |-> k]
              /\ batch_files[k] \in DOMAIN fs
        /\ WrittenPaths = {batch_files[k] : k \in DOMAIN batch_files}
        /\ table_name \in dirs /\ Root \in dirs

C11_Witness ==
    /\ Returned
    /\ Len(batch_files) = 4
    /\ batch_files[4].seq = 4
    /\ batch_files[4] \in DOMAIN fs

\* The source line that the i-th line of the k-th returned batch file was
\* copied from: the header for i = 1, else the data line at the batch's
\* position in the source.
SourceLineOf(k, i) ==
    IF i = 1 THEN SourceRaw[1] ELSE SourceRaw[DataCount(k - 1) + i]

\* C17: Line terminators preserved.  Every line written to a batch file,
\* header and data alike, ends with the same terminator (LF, CRLF, CR, or
\* none for an unterminated final line) as the source line it was copied
\* from.
C17_Terminators ==
    (Returned /\ PositiveBatchSize) =>
        \A k \in DOMAIN batch_files :
            \A i \in DOMAIN BatchRaw(k) :
                BatchRaw(k)[i].eol = SourceLineOf(k, i).eol

\* Encoded size, as line 122 measures it, of the data lines of the k-th
\* returned batch file.
RECURSIVE SumLineSize(_)
SumLineSize(lines) ==
    IF lines = <<>> THEN 0 ELSE LineSize(Head(lines)) + SumLineSize(Tail(lines))

DataBytes(k) == SumLineSize(DataOf(BatchText(k)))

\* What one iteration of the loop over a data line does to the batch
\* counters: a flush exactly when the batch is non-empty and the line would
\* take it over the target; at a flush the count restarts from 0 (then takes
\* the line) and the batch number goes up by one.
GreedyStep ==
    (sp_pc = "loop" /\ HasNextLine /\ line_number # 0) =>
        IF batch_lines # <<>>
           /\ current_batch_size + LineSize(NextLine) > batch_size_bytes
        THEN /\ batch_files' = Append(batch_files,
                    [dir |-> table_name, name |-> table_name, seq |-> batch_number])
             /\ batch_number' = batch_number + 1
             /\ current_batch_size' = 0 + LineSize(NextLine)
             /\ batch_lines' = <<NextLine>>
        ELSE /\ batch_files' = batch_files
             /\ batch_number' = batch_number
             /\ current_batch_size' = current_batch_size + LineSize(NextLine)
             /\ batch_lines' = Append(batch_lines, NextLine)

GreedyBoundaries ==
    Returned =>
        \A k \in 1..(Len(batch_files) - 1) :
            DataBytes(k) + LineSize(BatchText(k + 1)[2]) > batch_size_bytes

\* C20: Greedy batch boundaries.  A batch is flushed exactly when the batch
\* being assembled is non-empty and its data bytes plus the next line's
\* encoded size would exceed the target, the running count restarts from 0
\* and the batch number goes up by one at each flush; so for every two
\* consecutive batch files k and k+1 the data bytes of batch k plus the size
\* of the first data line of batch k+1 is strictly greater than the target.
C20_Greedy == [][GreedyStep /\ GreedyBoundaries']_vars

C20_Witness ==
    /\ Returned
    /\ PositiveBatchSize
    /\ Len(batch_files) = 3
    /\ DataBytes(1) = batch_size_bytes
    /\ DataBytes(2) < batch_size_bytes

(***************************************************************************)
(* SpecDir: split_file_by_lines called on a table directory that already   *)
(* exists and holds files: batch files 1..S left by an earlier split and a *)
(* file that is no batch file.  The source is data/a, or a missing path,   *)
(* or one of the batch files already in the table directory.  When the     *)
(* call has returned, the client calls again with the same arguments.      *)
(***************************************************************************)
\* Most batch files an earlier split has left in the table directory.
MaxStale == 4

DirKinds == {k \in SmallKinds : k.bytes < 100}

DirSources ==
    {MkFile(<<[text |-> 0, bytes |-> 5]>> \o ds, conv) :
        ds \in DataSeqs(DirKinds), conv \in {"LF", "CRLF"}}

\* What an earlier split left in a batch file.
OldBatch ==
    MkFile(<<[text |-> 0, bytes |-> 5], [text |-> 3, bytes |-> 119]>>, "LF")

\* A file in the table directory that is not a batch file.
ForeignPath == [dir |-> "t1", name |-> "notes", seq |-> 0]

ForeignFile == MkFile(<<[text |-> 8, bytes |-> 11]>>, "LF")

\* src = 0: the source is data/a; src = j > 0: it is t1/t1_batch_j.csv;
\* src = -1: it does not exist.
DirSourcePath(src) ==
    IF src = 0 THEN SrcPath("a")
    ELSE IF src > 0 THEN BatchPath("t1", src) ELSE SrcPath("missing")

DirFs(stale, src, content) ==
    [p \in {BatchPath("t1", j) : j \in 1..stale} \cup {ForeignPath}
           \cup (IF src = 0 THEN {SrcPath("a")} ELSE {}) |->
        IF p = DirSourcePath(src) THEN content
        ELSE IF p = ForeignPath THEN ForeignFile ELSE OldBatch]

InitDir ==
    /\ linesep \in Platforms
    /\ \E stale \in 0..MaxStale, content \in DirSources :
          \E src \in (0 - 1)..stale :
              /\ fs = DirFs(stale, src, content)
              /\ source_file = DirSourcePath(src)
    /\ dirs = {Root, "t1"}
    /\ fs0 = fs
    /\ dirs0 = dirs
    /\ sp_pc = "called"
    /\ exc = "None"
    /\ batch_size_mb = <<100, BytesPerMB>>
    /\ table_name = "t1"
    /\ batch_size_bytes = 0
    /\ batch_files = <<>>
    /\ batch_number = 1
    /\ current_batch_size = 0
    /\ batch_lines = <<>>
    /\ header = None
    /\ line_number = 0
    /\ PlanIdle
    /\ OuterIdle

\* The client calls split_file_by_lines a second time with the arguments of
\* the call that has returned.  calls keeps what the first call was given
\* and what it returned.
CallAgain ==
    /\ sp_pc = "returned"
    /\ calls = <<>>
    /\ calls' = <<[ok |-> TRUE, files |-> batch_files,
                   source |-> fs0[source_file], fs |-> fs]>>
    /\ fs0' = fs
    /\ dirs0' = dirs
    /\ sp_pc' = "called"
    /\ UNCHANGED <<linesep, fs, dirs, exc, source_file, batch_size_mb,
                   table_name, batch_size_bytes, batch_files, batch_number,
                   current_batch_size, batch_lines, header, line_number>>
    /\ UNCHANGED <<pl_pc, file_configs, idx, results>>
    /\ UNCHANGED outerVars

NextDir == SplitStep \/ CallAgain

SpecDir == InitDir /\ [][NextDir]_vars

\* The paths split_file_by_lines has returned or is about to return.
EmittedPaths == {batch_files[k] : k \in DOMAIN batch_files}

InSplit == sp_pc \in {"loop", "returned", "raised"}

\* C13: Source not mutated.  Once split_file_by_lines has been called,
\* whether it returns or fails, the source holds what it held before the
\* call, wherever the source lies, the output directory included.  (The
\* contents are compared as the lines a text reader yields, so that a
\* changed terminator alone does not count as a mutation here.)
C13_SourceUntouched ==
    (InSplit /\ source_file \in DOMAIN fs0) =>
        /\ source_file \in DOMAIN fs
        /\ ReadText(fs[source_file]) = ReadText(fs0[source_file])

\* C14: Output directory reused, not cleared.  A split into a table
\* directory that already exists succeeds; every file that was in the
\* directory and is not a batch file emitted by this call is left as it was;
\* so after K batches are emitted, a file L_batch_j.csv with j > K left by an
\* earlier split still exists with its old content.
C14_DirectoryReused ==
    (InSplit /\ table_name \in dirs0) =>
        /\ source_file \in DOMAIN fs0 => sp_pc # "raised"
        /\ dirs0 \subseteq dirs
        /\ \A p \in DOMAIN fs0 :
              p \notin EmittedPaths => (p \in DOMAIN fs /\ fs[p] = fs0[p])
        /\ Returned =>
              \A j \in (Len(batch_files) + 1)..MaxStale :
                  BatchPath(table_name, j) \in DOMAIN fs0 =>
                      /\ BatchPath(table_name, j) \in DOMAIN fs
                      /\ fs[BatchPath(table_name, j)] = fs0[BatchPath(table_name, j)]

C14_Witness ==
    /\ Returned
    /\ calls = <<>>
    /\ table_name \in dirs0
    /\ Len(batch_files) = 2
    /\ BatchPath(table_name, 1) \in DOMAIN fs0
    /\ fs[BatchPath(table_name, 1)] # fs0[BatchPath(table_name, 1)]
    /\ BatchPath(table_name, 4) \in DOMAIN fs
    /\ fs[BatchPath(table_name, 4)] = OldBatch
    /\ ForeignPath \in DOMAIN fs

\* C19: Deterministic and idempotent split.  Two calls of
\* split_file_by_lines with the same batch size, label and root, and a
\* source that holds the same content at both calls, return the same list of
\* paths, and the second call leaves every batch file with the content the
\* first call gave it.
C19_Idempotent ==
    (Returned /\ calls # <<>> /\ fs0[source_file] = calls[1].source) =>
        /\ batch_files = calls[1].files
        /\ \A k \in DOMAIN batch_files :
              fs[batch_files[k]] = calls[1].fs[batch_files[k]]
        /\ fs = calls[1].fs

C19_Witness ==
    /\ Returned
    /\ calls # <<>>
    /\ fs0[source_file] = calls[1].source
    /\ Len(batch_files) = 3
    /\ BatchPath(table_name, 4) \in DOMAIN fs
    /\ linesep = "CRLF"

(***************************************************************************)
(* Further properties of split_multiple_files.                             *)
(***************************************************************************)
\* The batch files split_file_by_lines wrote for the i-th spec.
FilesOf(i) == {calls[i].files[k] : k \in DOMAIN calls[i].files}

\* One step of split_multiple_files leaves alone what was written and
\* recorded for the specs already processed, and a spec that has just been
\* processed wrote no path an earlier spec wrote.
NoSharedStep ==
    /\ \A i \in DOMAIN calls :
          /\ \A p \in FilesOf(i) : p \in DOMAIN fs' /\ fs'[p] = fs[p]
          /\ DictGet(results', LabelOf(i)) = DictGet(results, LabelOf(i))
    /\ \A j \in DOMAIN calls' :
          j \notin DOMAIN calls =>
              \A i \in DOMAIN calls :
                  FilesOf(i) \cap {calls'[j].files[k] : k \in DOMAIN calls'[j].files} = {}

\* C15: No shared state across specs.  Within one run of
\* split_multiple_files no two specs write the same file path, and
\* processing a later spec never overwrites or changes a batch file written
\* for an earlier spec, nor the result entry recorded for it.
C15_NoSharedState == [][NoSharedStep]_vars

\* C15 as amended: for specs with pairwise distinct labels.
C15_DistinctLabels == [][DistinctLabels => NoSharedStep]_vars

C15_Witness ==
    /\ PlanReturned
    /\ DistinctLabels
    /\ Len(calls) = 3
    /\ \A i \in DOMAIN calls : calls[i].ok /\ Len(calls[i].files) = 2
    /\ \A i \in DOMAIN calls : \A p \in FilesOf(i) : p \in DOMAIN fs

(***************************************************************************)
(* SpecEnc: one call of split_file_by_lines on sources that may hold lines *)
(* that are not valid UTF-8.  The text layer decodes the file a chunk at a *)
(* time, and the size of a chunk belongs to the Python build, so the       *)
(* UnicodeDecodeError may surface at the read of any line up to the first  *)
(* malformed one: that read is a choice of the model.                      *)
(***************************************************************************)
\* Position in the source of the first line that does not decode (0: none).
FirstBad ==
    IF \E j \in DOMAIN SourceRaw : Undecodable(SourceRaw[j])
    THEN CHOOSE j \in DOMAIN SourceRaw :
            /\ Undecodable(SourceRaw[j])
            /\ \A i \in 1..(j - 1) : ~Undecodable(SourceRaw[i])
    ELSE 0

\* Mutant of RaiseDecodeError: a line that does not decode is skipped
\* (errors='ignore' at line 110).
SkipUndecodable ==
    /\ sp_pc = "loop"
    /\ HasNextLine
    /\ Undecodable(SourceStream[line_number + 1])
    /\ line_number' = line_number + 1
    /\ UNCHANGED <<linesep, fs, dirs, fs0, dirs0, sp_pc, exc, source_file,
                   batch_size_mb, table_name, batch_size_bytes, batch_files,
                   batch_number, current_batch_size, batch_lines, header>>
    /\ UNCHANGED planVars
    /\ UNCHANGED outerVars

\* Line 116: the read for the next line decodes a chunk that reaches the
\* first malformed line; UnicodeDecodeError leaves split_file_by_lines (the
\* with block of line 110 closes the source).
RaiseDecodeError ==
    /\ sp_pc = "loop"
    /\ HasNextLine
    /\ FirstBad > line_number
    /\ sp_pc' = "raised"
    /\ exc' = "UnicodeDecodeError"
    /\ UNCHANGED <<linesep, fs, dirs, fs0, dirs0, source_file, batch_size_mb,
                   table_name, batch_size_bytes, batch_files, batch_number,
                   current_batch_size, batch_lines, header, line_number>>
    /\ UNCHANGED planVars
    /\ UNCHANGED outerVars

EncSources ==
    {MkFile(<<h>> \o ds, "LF") :
        h \in {[text |-> 0, bytes |-> 5], BadKind},
        ds \in DataSeqs(DirKinds \cup {BadKind})}

InitEnc ==
    /\ linesep \in Platforms
    /\ \/ /\ \E content \in EncSources : fs = (SrcPath("a") :> content)
          /\ source_file = SrcPath("a")
       \/ /\ fs = (SrcPath("a") :> MkFile(<<[text |-> 0, bytes |-> 5]>>, "LF"))
          /\ source_file = SrcPath("missing")
    /\ dirs = {Root}
    /\ fs0 = fs
    /\ dirs0 = dirs
    /\ sp_pc = "called"
    /\ exc = "None"
    /\ batch_size_mb \in {<<100, BytesPerMB>>, <<1, 1>>}
    /\ table_name = "t1"
    /\ batch_size_bytes = 0
    /\ batch_files = <<>>
    /\ batch_number = 1
    /\ current_batch_size = 0
    /\ batch_lines = <<>>
    /\ header = None
    /\ line_number = 0
    /\ PlanIdle
    /\ OuterIdle

NextEnc == SplitStep \/ RaiseDecodeError

SpecEnc == InitEnc /\ [][NextEnc]_vars

\* C16: Malformed encoding fails fast.  If a line of the source cannot be
\* decoded as UTF-8, split_file_by_lines does not return a batch list: it
\* goes on until it raises UnicodeDecodeError to its caller; and the batch
\* files it has written hold, in order, only data lines that come before the
\* malformed line, none that follows it.
C16_FailFast ==
    (InSplit /\ FirstBad > 0) =>
        /\ ~Returned
        /\ sp_pc = "raised" => exc = "UnicodeDecodeError"
        /\ sp_pc = "loop" => ENABLED NextEnc
        /\ WrittenPaths = EmittedPaths
        /\ \A k \in DOMAIN batch_files :
              \A i \in DOMAIN BatchRaw(k) : ~Undecodable(BatchRaw(k)[i])
        /\ ConcatData(Len(batch_files))
              = SubSeq(DataOf(SourceText), 1, DataCount(Len(batch_files)))
        /\ batch_files # <<>> => DataCount(Len(batch_files)) <= FirstBad - 2

C16_Witness ==
    /\ sp_pc = "raised"
    /\ exc = "UnicodeDecodeError"
    /\ FirstBad = 5
    /\ Len(SourceRaw) = 6
    /\ Len(batch_files) = 2
    /\ DataCount(2) = 2

(***************************************************************************)
(* SnowflakeBatchLoader.load_table_batches and load_batch_file             *)
(* (snowflake_loader.py).  The warehouse is simulated: the only thing a    *)
(* load touches is the size of the batch file, read at line 200 and again  *)
(* by put_file at line 136.  Times are left out.                           *)
(***************************************************************************)
\* Most batch files other processes remove while a table is loading.
MaxVanish == 1

\* 'rows_loaded' of the simulated COPY INTO.
RowsLoaded == 10000

\* The batch file the loop of line 265 is at.
BatchFile == lt_batch_files[lt_i]

LoadResult(ok, err) ==
    [table_name |-> lt_table_name, batch_file |-> BatchFile,
     batch_number |-> lt_i, rows_loaded |-> IF ok THEN RowsLoaded ELSE 0,
     file_size |-> file_size_mb, success |-> ok, error_message |-> err]

RECURSIVE SumRows(_)
SumRows(rs) == IF rs = <<>> THEN 0 ELSE Head(rs).rows_loaded + SumRows(Tail(rs))

RECURSIVE SumSize(_)
SumSize(rs) == IF rs = <<>> THEN 0 ELSE Head(rs).file_size + SumSize(Tail(rs))

\* Lines 258-264: the stage is created and load_results starts empty.
LoadTableStart ==
    /\ lt_pc = "called"
    /\ load_results' = <<>>
    /\ lt_i' = 1
    /\ lt_pc' = "loop"
    /\ UNCHANGED <<lt_table_name, lt_batch_files, lt_batch_size_mb,
                   file_size_mb, lt_summary, lt_exc, vanished>>
    /\ UNCHANGED <<linesep, fs, dirs, fs0, dirs0>>
    /\ UNCHANGED <<splitVars, planVars, pipeVars>>

\* Lines 265-267 and 199-200 when the batch file does not exist: the stat of
\* line 200 is outside the try, so FileNotFoundError leaves load_batch_file
\* and load_table_batches.
LoadBatchStatRaises ==
    /\ lt_pc = "loop"
    /\ lt_i <= Len(lt_batch_files)
    /\ BatchFile \notin DOMAIN fs
    /\ lt_pc' = "raised"
    /\ lt_exc' = "FileNotFoundError"
    /\ loader_log' = Append(loader_log,
          [op |-> "load_batch_file", table_name |-> lt_table_name,
           batch_file |-> BatchFile, batch_number |-> lt_i])
    /\ UNCHANGED <<lt_table_name, lt_batch_files, lt_batch_size_mb, lt_i,
                   load_results, file_size_mb, lt_summary, vanished>>
    /\ UNCHANGED <<linesep, fs, dirs, fs0, dirs0>>
    /\ UNCHANGED <<splitVars, planVars>>
    /\ UNCHANGED <<pi_pc, config, split_only, load_only, split_results,
                   load_summaries, comparison, fc_idx, connection, pi_exc, prior>>

\* Lines 265-267 and 199-200: load_batch_file is called for the next batch
\* file and reads its size.
LoadBatchStat ==
    /\ lt_pc = "loop"
    /\ lt_i <= Len(lt_batch_files)
    /\ BatchFile \in DOMAIN fs
    /\ file_size_mb' = FileSize(fs[BatchFile])
    /\ lt_pc' = "in_try"
    /\ loader_log' = Append(loader_log,
          [op |-> "load_batch_file", table_name |-> lt_table_name,
           batch_file |-> BatchFile, batch_number |-> lt_i])
    /\ UNCHANGED <<lt_table_name, lt_batch_files, lt_batch_size_mb, lt_i,
                   load_results, lt_summary, lt_exc, vanished>>
    /\ UNCHANGED <<linesep, fs, dirs, fs0, dirs0>>
    /\ UNCHANGED <<splitVars, planVars>>
    /\ UNCHANGED <<pi_pc, config, split_only, load_only, split_results,
                   load_summaries, comparison, fc_idx, connection, pi_exc, prior>>

\* Lines 202-223 and 268: put_file (which reads the size again, line 136)
\* and copy_into_table succeed; the result is appended.
LoadBatchTry ==
    /\ lt_pc = "in_try"
    /\ BatchFile \in DOMAIN fs
    /\ load_results' = Append(load_results, LoadResult(TRUE, "None"))
    /\ lt_i' = lt_i + 1
    /\ lt_pc' = "loop"
    /\ UNCHANGED <<lt_table_name, lt_batch_files, lt_batch_size_mb,
                   file_size_mb, lt_summary, lt_exc, vanished>>
    /\ UNCHANGED <<linesep, fs, dirs, fs0, dirs0>>
    /\ UNCHANGED <<splitVars, planVars, pipeVars>>

\* Lines 204, 136, 225-239 and 268: the file is gone when put_file reads its
\* size; the handler turns the exception into a failed LoadResult.
LoadBatchExcept ==
    /\ lt_pc = "in_try"
    /\ BatchFile \notin DOMAIN fs
    /\ load_results' = Append(load_results, LoadResult(FALSE, "FileNotFoundError"))
    /\ lt_i' = lt_i + 1
    /\ lt_pc' = "loop"
    /\ UNCHANGED <<lt_table_name, lt_batch_files, lt_batch_size_mb,
                   file_size_mb, lt_summary, lt_exc, vanished>>
    /\ UNCHANGED <<linesep, fs, dirs, fs0, dirs0>>
    /\ UNCHANGED <<splitVars, planVars, pipeVars>>

\* Lines 275-292: the loop is over; the summary is returned.
LoadTableReturn ==
    /\ lt_pc = "loop"
    /\ lt_i > Len(lt_batch_files)
    /\ lt_summary' =
          [table_name |-> lt_table_name, batch_size_mb |-> lt_batch_size_mb,
           total_batches |-> Len(lt_batch_files),
           total_rows_loaded |-> SumRows(load_results),
           total_size |-> SumSize(load_results),
           load_results |-> load_results]
    /\ lt_pc' = "returned"
    /\ UNCHANGED <<lt_table_name, lt_batch_files, lt_batch_size_mb, lt_i,
                   load_results, file_size_mb, lt_exc, vanished>>
    /\ UNCHANGED <<linesep, fs, dirs, fs0, dirs0>>
    /\ UNCHANGED <<splitVars, planVars, pipeVars>>

\* Another process removes the batch file the loop is at, before the stat
\* of line 200 or between it and the stat of line 136.  (A file removed
\* earlier than that is, for the loader, a file removed just before its
\* turn.)
FileVanishes ==
    /\ lt_pc \in {"loop", "in_try"}
    /\ vanished < MaxVanish
    /\ lt_i <= Len(lt_batch_files)
    /\ BatchFile \in DOMAIN fs
    /\ fs' = [p \in DOMAIN fs \ {BatchFile} |-> fs[p]]
    /\ vanished' = vanished + 1
    /\ UNCHANGED <<linesep, dirs, fs0, dirs0>>
    /\ UNCHANGED <<splitVars, planVars, loadVars, pipeVars>>

LoadStep ==
    \/ LoadTableStart
    \/ LoadBatchStatRaises
    \/ LoadBatchStat
    \/ LoadBatchTry
    \/ LoadBatchExcept
    \/ LoadTableReturn
    \/ FileVanishes

(***************************************************************************)
(* SpecLoad: one call of load_table_batches with every list of at most     *)
(* MaxBatches paths out of two batch files that exist and one that does    *)
(* not.                                                                    *)
(***************************************************************************)
MaxBatches == 3

LoadFs == (BatchPath("t1", 1) :> OldBatch) @@ (BatchPath("t1", 2) :> OldBatch)

LoadPaths == {BatchPath("t1", 1), BatchPath("t1", 2), BatchPath("t1", 3)}

InitLoad ==
    /\ linesep \in Platforms
    /\ fs = LoadFs
    /\ dirs = {Root, "t1"}
    /\ fs0 = fs
    /\ dirs0 = dirs
    /\ sp_pc = "idle"
    /\ exc = "None"
    /\ source_file = SrcPath("a")
    /\ batch_size_mb = <<1, 1>>
    /\ table_name = "t1"
    /\ batch_size_bytes = 0
    /\ batch_files = <<>>
    /\ batch_number = 1
    /\ current_batch_size = 0
    /\ batch_lines = <<>>
    /\ header = None
    /\ line_number = 0
    /\ PlanIdle
    /\ lt_pc = "called"
    /\ lt_table_name = "t1"
    /\ lt_batch_files \in UNION {[1..n -> LoadPaths] : n \in 0..MaxBatches}
    /\ lt_batch_size_mb = <<1, 1>>
    /\ lt_i = 1
    /\ load_results = <<>>
    /\ file_size_mb = 0
    /\ lt_summary = NoSummary
    /\ lt_exc = "None"
    /\ vanished = 0
    /\ pi_pc = "idle"
    /\ config = <<>>
    /\ split_only = FALSE
    /\ load_only = FALSE
    /\ split_results = <<>>
    /\ load_summaries = <<>>
    /\ comparison = <<>>
    /\ fc_idx = 1
    /\ connection = "None"
    /\ pi_exc = "None"
    /\ loader_log = <<>>
    /\ prior = [l \in {} |-> 0]

NextLoad == LoadStep

SpecLoad == InitLoad /\ [][NextLoad]_vars

\* C18: Per-batch load results.  For every list of n batch file paths,
\* load_table_batches returns a summary with total_batches = n and exactly n
\* per-batch results, in input order, numbered 1..n; a batch whose load
\* fails, a batch file that does not exist included, is reported as a result
\* with success = false and an error message, and the batches after it are
\* still loaded.
C18_PerBatchResults ==
    lt_pc \in {"returned", "raised"} =>
        /\ lt_pc = "returned"
        /\ lt_summary.total_batches = Len(lt_batch_files)
        /\ Len(lt_summary.load_results) = Len(lt_batch_files)
        /\ \A i \in DOMAIN lt_summary.load_results :
              LET r == lt_summary.load_results[i]
              IN /\ r.batch_file = lt_batch_files[i]
                 /\ r.batch_number = i
                 /\ r.success <=> r.error_message = "None"
                 /\ lt_batch_files[i] \notin DOMAIN fs0 => ~r.success

(***************************************************************************)
(* run_batch_loading_pipeline (batch_load_orchestrator.py).                *)
(***************************************************************************)
NoPath == [dir |-> "None", name |-> "None", seq |-> 0]

\* A call on the loader that is not a load of a batch file.
LoaderCall(op) ==
    [op |-> op, table_name |-> "None", batch_file |-> NoPath, batch_number |-> 0]

\* The decimal digits of n, as str(n) writes them.
RECURSIVE Digits(_)
Digits(n) == IF n < 10 THEN <<n>> ELSE Digits(n \div 10) \o <<n % 10>>

\* Order of strings, character by character; a proper prefix comes first.
RECURSIVE StrLess(_, _)
StrLess(a, b) ==
    IF a = <<>> THEN b # <<>>
    ELSE IF b = <<>> THEN FALSE
    ELSE IF Head(a) # Head(b) THEN Head(a) < Head(b)
    ELSE StrLess(Tail(a), Tail(b))

\* Two batch paths of one table differ only after "<label>_batch_": there
\* the name goes on with the digits of the number and then ".csv", and "."
\* sorts before every digit.
PathLess(p, q) == StrLess(Digits(p.seq) \o <<0 - 1>>, Digits(q.seq) \o <<0 - 1>>)

\* sorted(...) of line 165: Path objects are ordered as their strings are.
RECURSIVE SortedPaths(_)
SortedPaths(S) ==
    IF S = {} THEN <<>>
    ELSE LET m == CHOOSE x \in S : \A y \in S \ {x} : PathLess(x, y)
         IN <<m>> \o SortedPaths(S \ {m})

\* table_dir.glob(f"{table_name}_batch_*.csv") of line 165.
Glob(t) == {p \in DOMAIN fs : p.dir = t /\ p.name = t /\ p.seq > 0}

\* Lines 161-168: the batch files of the table the loop of line 155 is at.
TableBatchFiles ==
    LET t == config[fc_idx].table_name
    IN IF load_only THEN SortedPaths(Glob(t))
       ELSE IF HasKey(split_results, t) THEN DictGet(split_results, t) ELSE <<>>

\* Lines 114-132 when load_only is false: the results dict is made and
\* split_multiple_files is called with the specs of the config.
PipeSplit ==
    /\ pi_pc = "called"
    /\ ~load_only
    /\ split_results' = <<>>
    /\ load_summaries' = <<>>
    /\ comparison' = <<>>
    /\ file_configs' = config
    /\ pl_pc' = "called"
    /\ pi_pc' = "phase1"
    /\ UNCHANGED <<linesep, fs, dirs, fs0, dirs0, idx, results, calls>>
    /\ UNCHANGED <<config, split_only, load_only, fc_idx, connection, pi_exc,
                   loader_log, prior>>
    /\ UNCHANGED <<splitVars, loadVars, vanished>>

\* Lines 114-123 when load_only is true: phase 1 is skipped.
PipeSkipSplit ==
    /\ pi_pc = "called"
    /\ load_only
    /\ split_results' = <<>>
    /\ load_summaries' = <<>>
    /\ comparison' = <<>>
    /\ pi_pc' = "phase1_done"
    /\ UNCHANGED <<linesep, fs, dirs, fs0, dirs0>>
    /\ UNCHANGED <<config, split_only, load_only, fc_idx, connection, pi_exc,
                   loader_log, prior>>
    /\ UNCHANGED <<splitVars, planVars, loadVars, vanished>>

\* Lines 132-137: split_multiple_files has returned its mapping.
PipeSplitDone ==
    /\ pi_pc = "phase1"
    /\ pl_pc = "returned"
    /\ split_results' = results
    /\ pi_pc' = "phase1_done"
    /\ UNCHANGED <<linesep, fs, dirs, fs0, dirs0>>
    /\ UNCHANGED <<config, split_only, load_only, load_summaries, comparison,
                   fc_idx, connection, pi_exc, loader_log, prior>>
    /\ UNCHANGED <<splitVars, planVars, loadVars, vanished>>

\* Lines 139-141: split_only returns before the loader exists.
PipeSplitOnlyReturn ==
    /\ pi_pc = "phase1_done"
    /\ split_only
    /\ pi_pc' = "returned"
    /\ UNCHANGED <<linesep, fs, dirs, fs0, dirs0>>
    /\ UNCHANGED <<config, split_only, load_only, split_results,
                   load_summaries, comparison, fc_idx, connection, pi_exc,
                   loader_log, prior>>
    /\ UNCHANGED <<splitVars, planVars, loadVars, vanished>>

\* Mutant of PipeConnect: the loader is made and connected while
\* split_multiple_files may still be running.
PipeConnectEarly ==
    /\ pi_pc \in {"phase1", "phase1_done"}
    /\ ~split_only
    /\ connection' = "None"
    /\ loader_log' = Append(loader_log, LoaderCall("connect"))
    /\ fc_idx' = 1
    /\ pi_pc' = "loading"
    /\ UNCHANGED <<linesep, fs, dirs, fs0, dirs0>>
    /\ UNCHANGED <<config, split_only, load_only, split_results,
                   load_summaries, comparison, pi_exc, prior>>
    /\ UNCHANGED <<splitVars, planVars, loadVars, vanished>>

\* Lines 143-152: the loader is made and connect() is called; the simulated
\* connect leaves loader.connection None (snowflake_loader.py lines 64-79).
PipeConnect ==
    /\ pi_pc = "phase1_done"
    /\ ~split_only
    /\ connection' = "None"
    /\ loader_log' = Append(loader_log, LoaderCall("connect"))
    /\ fc_idx' = 1
    /\ pi_pc' = "loading"
    /\ UNCHANGED <<linesep, fs, dirs, fs0, dirs0>>
    /\ UNCHANGED <<config, split_only, load_only, split_results,
                   load_summaries, comparison, pi_exc, prior>>
    /\ UNCHANGED <<splitVars, planVars, loadVars, vanished>>

\* Lines 155-172: the table has no batch files and is passed over.
PipeSkipTable ==
    /\ pi_pc = "loading"
    /\ lt_pc = "idle"
    /\ fc_idx <= Len(config)
    /\ TableBatchFiles = <<>>
    /\ fc_idx' = fc_idx + 1
    /\ UNCHANGED <<linesep, fs, dirs, fs0, dirs0>>
    /\ UNCHANGED <<pi_pc, config, split_only, load_only, split_results,
                   load_summaries, comparison, connection, pi_exc,
                   loader_log, prior>>
    /\ UNCHANGED <<splitVars, planVars, loadVars, vanished>>

\* Lines 155-178: load_table_batches is called with the table's batch files.
PipeLoadTable ==
    /\ pi_pc = "loading"
    /\ lt_pc = "idle"
    /\ fc_idx <= Len(config)
    /\ TableBatchFiles # <<>>
    /\ lt_table_name' = config[fc_idx].table_name
    /\ lt_batch_files' = TableBatchFiles
    /\ lt_batch_size_mb' = config[fc_idx].batch_size_mb
    /\ lt_pc' = "called"
    /\ UNCHANGED <<lt_i, load_results, file_size_mb, lt_summary, lt_exc>>
    /\ UNCHANGED <<linesep, fs, dirs, fs0, dirs0>>
    /\ UNCHANGED <<splitVars, planVars, pipeVars, vanished>>

\* Lines 174-179: the summary is appended and the loop goes on.
PipeTableDone ==
    /\ pi_pc = "loading"
    /\ lt_pc = "returned"
    /\ load_summaries' = Append(load_summaries, lt_summary)
    /\ fc_idx' = fc_idx + 1
    /\ lt_pc' = "idle"
    /\ UNCHANGED <<lt_table_name, lt_batch_files, lt_batch_size_mb, lt_i,
                   load_results, file_size_mb, lt_summary, lt_exc>>
    /\ UNCHANGED <<linesep, fs, dirs, fs0, dirs0>>
    /\ UNCHANGED <<pi_pc, config, split_only, load_only, split_results,
                   comparison, connection, pi_exc, loader_log, prior>>
    /\ UNCHANGED <<splitVars, planVars, vanished>>

\* Mutant of PipeLoadError: the handler returns without calling
\* disconnect().
PipeLoadErrorNoDisconnect ==
    /\ pi_pc = "loading"
    /\ lt_pc = "raised"
    /\ pi_exc' = lt_exc
    /\ connection' = "None"
    /\ lt_pc' = "idle"
    /\ pi_pc' = "returned"
    /\ UNCHANGED <<lt_table_name, lt_batch_files, lt_batch_size_mb, lt_i,
                   load_results, file_size_mb, lt_summary, lt_exc>>
    /\ UNCHANGED <<linesep, fs, dirs, fs0, dirs0>>
    /\ UNCHANGED <<config, split_only, load_only, split_results,
                   load_summaries, comparison, fc_idx, loader_log, prior>>
    /\ UNCHANGED <<splitVars, planVars, vanished>>

\* Lines 183-186: an exception left load_table_batches; the handler calls
\* disconnect() and returns the results gathered so far.
PipeLoadError ==
    /\ pi_pc = "loading"
    /\ lt_pc = "raised"
    /\ pi_exc' = lt_exc
    /\ loader_log' = Append(loader_log, LoaderCall("disconnect"))
    /\ connection' = "None"
    /\ lt_pc' = "idle"
    /\ pi_pc' = "returned"
    /\ UNCHANGED <<lt_table_name, lt_batch_files, lt_batch_size_mb, lt_i,
                   load_results, file_size_mb, lt_summary, lt_exc>>
    /\ UNCHANGED <<linesep, fs, dirs, fs0, dirs0>>
    /\ UNCHANGED <<config, split_only, load_only, split_results,
                   load_summaries, comparison, fc_idx, prior>>
    /\ UNCHANGED <<splitVars, planVars, vanished>>

\* Lines 181 and 188-222: every table is done; disconnect(), then phase 3
\* compares the summaries, if there are any, and the results are returned.
PipeFinish ==
    /\ pi_pc = "loading"
    /\ lt_pc = "idle"
    /\ fc_idx > Len(config)
    /\ loader_log' = Append(loader_log, LoaderCall("disconnect"))
    /\ connection' = "None"
    /\ comparison' = [i \in DOMAIN load_summaries |-> load_summaries[i].table_name]
    /\ pi_pc' = "returned"
    /\ UNCHANGED <<linesep, fs, dirs, fs0, dirs0>>
    /\ UNCHANGED <<config, split_only, load_only, split_results,
                   load_summaries, fc_idx, pi_exc, prior>>
    /\ UNCHANGED <<splitVars, planVars, loadVars, vanished>>

PipeStep ==
    \/ PipeSplit
    \/ PipeSkipSplit
    \/ PipeSplitDone
    \/ PipeSplitOnlyReturn
    \/ PipeConnect
    \/ PipeSkipTable
    \/ PipeLoadTable
    \/ PipeTableDone
    \/ PipeLoadError
    \/ PipeFinish

(***************************************************************************)
(* SpecPipe: one run of run_batch_loading_pipeline, in every combination   *)
(* of split_only and load_only, over configs of at most MaxTables file     *)
(* configs.  The directory of table t1 may hold batch files of earlier     *)
(* runs: none; or two, of which the last split before this run wrote the   *)
(* first and a split before that the second; or MaxOld, all of them        *)
(* written by the last split before this run.                              *)
(***************************************************************************)
MaxTables == 2

\* The largest number of batch files earlier runs have left for a table.
MaxOld == 11

PipeSpecs ==
    {[source_file |-> SrcPath(c[1]), batch_size_mb |-> <<100, BytesPerMB>>,
      table_name |-> c[2]] :
        c \in {<<"a", "t1">>, <<"missing", "t1">>, <<"b", "t2">>}}

PipeFs(old) == PlanFs @@ [p \in {BatchPath("t1", j) : j \in 1..old} |-> OldBatch]

InitPipe ==
    /\ linesep \in Platforms
    /\ \E c \in {<<0, 0>>, <<2, 1>>, <<MaxOld, MaxOld>>} :
          /\ fs = PipeFs(c[1])
          /\ dirs = IF c[1] = 0 THEN {Root} ELSE {Root, "t1"}
          /\ prior = [l \in Labels |-> IF l = "t1" THEN c[2] ELSE 0]
    /\ fs0 = fs
    /\ dirs0 = dirs
    /\ sp_pc = "idle"
    /\ exc = "None"
    /\ source_file = SrcPath("a")
    /\ batch_size_mb = <<1, 1>>
    /\ table_name = "t1"
    /\ batch_size_bytes = 0
    /\ batch_files = <<>>
    /\ batch_number = 1
    /\ current_batch_size = 0
    /\ batch_lines = <<>>
    /\ header = None
    /\ line_number = 0
    /\ PlanIdle
    /\ LoadIdle
    /\ vanished = 0
    /\ pi_pc = "called"
    /\ config \in UNION {[1..n -> PipeSpecs] : n \in 1..MaxTables}
    /\ split_only \in BOOLEAN
    /\ load_only \in BOOLEAN
    /\ split_results = <<>>
    /\ load_summaries = <<>>
    /\ comparison = <<>>
    /\ fc_idx = 1
    /\ connection = "None"
    /\ pi_exc = "None"
    /\ loader_log = <<>>

NextPipe ==
    \/ PipeStep
    \/ PlanStart
    \/ PlanInvoke
    \/ SplitStep
    \/ PlanRecord
    \/ PlanExcept
    \/ PlanReturn
    \/ LoadStep

SpecPipe == InitPipe /\ [][NextPipe]_vars

\* The batch files the latest split of table t produced, in split order:
\* in a load_only run the split is that of an earlier run, otherwise it is
\* the last split this run made for the label.
LatestSplit(t) ==
    IF load_only
    THEN [k \in 1..prior[t] |-> BatchPath(t, k)]
    ELSE LET I == {i \in DOMAIN calls : file_configs[i].table_name = t}
         IN IF I = {} THEN <<>>
            ELSE calls[CHOOSE i \in I : \A j \in I : j <= i].files

\* C12: Load order equals split order.  In every run of
\* run_batch_loading_pipeline that loads, after a split in the same run or
\* in load_only mode, whatever the number of batch files, the loader is
\* handed each table's batch files in ascending split sequence number, and
\* they are exactly the files of the latest split: the i-th batch file
\* loaded for a table is the i-th the split produced.
C12_LoadOrder ==
    /\ (pi_pc = "loading" /\ lt_pc # "idle") =>
          lt_batch_files = LatestSplit(lt_table_name)
    /\ \A e \in DOMAIN loader_log :
          loader_log[e].op = "load_batch_file" =>
              loader_log[e].batch_file
                  = BatchPath(loader_log[e].table_name, loader_log[e].batch_number)

\* The running count is the sum of the encoded sizes of the pending lines.
RunningCount ==
    sp_pc = "loop" => current_batch_size = SumLineSize(batch_lines)

\* Every batch file written so far holds at least one data line.
NoEmptyBatch ==
    \A k \in DOMAIN batch_files : Len(DataOf(BatchRaw(k))) >= 1

\* C21: Batch shape invariant.  Throughout split_file_by_lines the running
\* byte count equals the sum of the encoded sizes of the pending lines;
\* every batch file written contains at least one data line; and every batch
\* file that contains two or more data lines has data bytes, the header
\* excluded, of at most the target batch size.
C21_BatchShape ==
    InSplit =>
        /\ RunningCount
        /\ NoEmptyBatch
        /\ \A k \in DOMAIN batch_files :
              Len(DataOf(BatchRaw(k))) >= 2 =>
                  FileSize(DataOf(BatchRaw(k))) <= batch_size_bytes


\* No operation of the loader has happened: neither connect nor a load.
NoLoaderOperation == loader_log = <<>> /\ lt_pc = "idle"

\* No split operation has happened and no batch file has been written: the
\* planner and the splitter never left their idle positions and the files
\* are those the run started with, unchanged.
NoSplitOperation ==
    /\ pl_pc = "idle"
    /\ sp_pc = "idle"
    /\ calls = <<>>
    /\ dirs = dirs0
    /\ \A p \in DOMAIN fs : p \in DOMAIN fs0 /\ fs[p] = fs0[p]

\* split_multiple_files has returned after one call of the splitter for
\* every spec of the config, and the splitter is at rest.
SplitPhaseComplete ==
    /\ pl_pc = "returned"
    /\ sp_pc = "idle"
    /\ Len(calls) = Len(config)
    /\ split_results = results

\* C22: Phase gating of run_batch_loading_pipeline.  With split_only the
\* pipeline performs no loader operation (no connect, no load) and its
\* load_summaries and comparison stay empty up to and at the return; with
\* load_only no split operation is performed and no batch file is written;
\* with neither flag the split phase is complete for all specs whenever a
\* loader operation has happened or the load phase has been entered.
C22_PhaseGating ==
    /\ split_only =>
          /\ NoLoaderOperation
          /\ load_summaries = <<>>
          /\ comparison = <<>>
          /\ pi_pc \in {"called", "phase1", "phase1_done", "returned"}
    /\ load_only => NoSplitOperation
    /\ (~split_only /\ ~load_only) =>
          ((~NoLoaderOperation \/ pi_pc \in {"loading", "returned"})
              => SplitPhaseComplete)

\* With neither flag a batch file of table t1 is being loaded after both
\* specs of the config have been split.
C22_Witness ==
    /\ ~split_only
    /\ ~load_only
    /\ pi_pc = "loading"
    /\ lt_pc = "in_try"
    /\ Len(config) = 2
    /\ Len(calls) = 2
    /\ calls[1].ok
    /\ loader_log[Len(loader_log)].op = "load_batch_file"


\* The calls of op made on the loader so far.
CallsOf(op) ==
    LET IsOp(e) == e.op = op IN SelectSeq(loader_log, IsOp)

\* The calls of load_table_batches made so far, each seen as its first
\* load_batch_file.
TableLoads ==
    LET IsFirst(e) == e.op = "load_batch_file" /\ e.batch_number = 1
    IN SelectSeq(loader_log, IsFirst)

\* The pipeline has returned from a run that reached the load phase.
LoadPhaseReturned == pi_pc = "returned" /\ ~split_only

\* C23: Load-phase failure handling.  In every run that reaches the load
\* phase, when the function has returned connect was the first call on the
\* loader and disconnect the last, each made once.  An exception raised by
\* the load of a table is taken by the handler, never left to the caller:
\* the pipeline returns, its results hold the summaries of exactly the
\* tables loaded before the failure, in order, its comparison is empty, and
\* no load follows the one that failed.
C23_LoadFailure ==
    /\ (pi_pc = "loading" /\ lt_pc = "raised") => ENABLED PipeLoadError
    /\ pi_exc # "None" => LoadPhaseReturned
    /\ LoadPhaseReturned =>
          /\ Len(CallsOf("connect")) = 1
          /\ Len(CallsOf("disconnect")) = 1
          /\ loader_log[1].op = "connect"
          /\ loader_log[Len(loader_log)].op = "disconnect"
    /\ (LoadPhaseReturned /\ pi_exc # "None") =>
          /\ comparison = <<>>
          /\ fc_idx <= Len(config)
          /\ loader_log[Len(loader_log) - 1].op = "load_batch_file"
          /\ loader_log[Len(loader_log) - 1].table_name
                = config[fc_idx].table_name
          /\ Len(load_summaries) = Len(TableLoads) - 1
          /\ \A i \in DOMAIN load_summaries :
                /\ load_summaries[i].table_name = TableLoads[i].table_name
                /\ load_summaries[i].table_name \in
                      {config[j].table_name : j \in 1..(fc_idx - 1)}

\* The load of the second table of the config raised after the first table
\* had been loaded; the pipeline has returned.
C23_Witness ==
    /\ LoadPhaseReturned
    /\ pi_exc # "None"
    /\ Len(config) = 2
    /\ fc_idx = 2
    /\ Len(load_summaries) = 1
    /\ loader_log[Len(loader_log)].op = "disconnect"

====
